---- MODULE Spec2Model ----
(***************************************************************************)
(* ssh-agent-router: a filtering proxy between SSH clients and one         *)
(* upstream SSH agent.  The model follows src/src/agent.rs (Agent,         *)
(* SshKey), src/src/socket.rs (FilteredSocket), src/src/main.rs (main) and *)
(* src/src/cli.rs (SocketConfig).                                          *)
(* Frames are sequences of bytes (0..255); positions named `pos` are the   *)
(* 0-based offsets of the Rust code, so byte pos of b is b[pos + 1].       *)
(***************************************************************************)
EXTENDS Integers, Sequences, FiniteSets, TLC

(***************************************************************************)
(* Bounds of the model.                                                    *)
(***************************************************************************)
\* Permits of one endpoint's semaphore.  The source sets 100
\* (socket.rs:199); the model scales the gate down so that the cap is
\* reached with the few connections it has.
MAX_CONCURRENT_CONNECTIONS == 1

(***************************************************************************)
(* Wire constants.                                                         *)
(***************************************************************************)
SSH_AGENT_FAILURE == 5
SSH_AGENTC_REQUEST_IDENTITIES == 11
SSH_AGENT_IDENTITIES_ANSWER == 12
SSH_AGENTC_SIGN_REQUEST == 13
MAX_MESSAGE_SIZE == 1024 * 1024

(***************************************************************************)
(* Byte helpers: u32::to_be_bytes, u32::from_be_bytes, slices.             *)
(***************************************************************************)
\* The largest integer the checker computes with.  A u32 of this size or
\* more is represented by it: the model only compares such a value with
\* lengths and offsets far below it, and the comparison comes out the same.
Big == 127 * 16777216 + 16777215

\* (n as u32).to_be_bytes().  Every n the model encodes is a length below
\* 2^31, which the cast to u32 leaves unchanged.
U32BE(n) ==
    << (n \div 16777216) % 256, (n \div 65536) % 256, (n \div 256) % 256, n % 256 >>

\* u32::from_be_bytes([b[pos], b[pos+1], b[pos+2], b[pos+3]])
FromBE(b, pos) ==
    IF b[pos + 1] >= 128 THEN Big
    ELSE b[pos + 1] * 16777216 + b[pos + 2] * 65536 + b[pos + 3] * 256 + b[pos + 4]

\* &b[from..to]
Slice(b, from, to) == SubSeq(b, from + 1, to)

RECURSIVE Concat(_)
\* The concatenation of a sequence of byte sequences.
Concat(ss) == IF ss = << >> THEN << >> ELSE Head(ss) \o Concat(Tail(ss))

RECURSIVE Utf8Lossy(_)
\* String::from_utf8_lossy(bytes) as the bytes of the resulting String, for
\* the bytes the model uses: a byte below 128 is itself, the sequence
\* EF BF BD (U+FFFD) is valid and kept, and the byte 255, which no UTF-8
\* sequence contains, is replaced by U+FFFD.
Utf8Lossy(bytes) ==
    IF bytes = << >> THEN << >>
    ELSE IF bytes[1] < 128 THEN << bytes[1] >> \o Utf8Lossy(Tail(bytes))
    ELSE IF Len(bytes) >= 3 /\ SubSeq(bytes, 1, 3) = << 239, 191, 189 >>
         THEN << 239, 191, 189 >> \o Utf8Lossy(SubSeq(bytes, 4, Len(bytes)))
    ELSE << 239, 191, 189 >> \o Utf8Lossy(Tail(bytes))

\* "unknown"
Unknown == << 117, 110, 107, 110, 111, 119, 110 >>

(***************************************************************************)
(* agent.rs: SshKey                                                        *)
(***************************************************************************)
\* SshKey::calculate_fingerprint.  SHA-256 and base64 are not computed: the
\* fingerprint is the tagged blob, an injective function of the blob (the
\* model assumes no hash collisions).
calculate_fingerprint(blob) == << "SHA256:", blob >>

\* SshKey::from_blob
from_blob(key_type, blob, comment) ==
    [key_type |-> key_type, blob |-> blob, comment |-> comment,
     fingerprint |-> calculate_fingerprint(blob)]

\* The key type parsed from a blob (agent.rs:118-127).
key_type_of(blob) ==
    IF Len(blob) > 4
    THEN LET type_len == FromBE(blob, 0)
         IN  IF Len(blob) - 4 >= type_len
             THEN Utf8Lossy(Slice(blob, 4, 4 + type_len))
             ELSE Unknown
    ELSE Unknown

RECURSIVE parse_keys(_, _, _, _)
\* The loop of Agent::list_keys (agent.rs:95-150): n identities are still
\* declared, pos is the read offset, keys the identities parsed so far.  A
\* length that runs past the message ends the loop (break), keeping keys.
parse_keys(msg_buf, pos, n, keys) ==
    IF n = 0 \/ Len(msg_buf) < pos + 4 THEN keys
    ELSE
      LET blob_len == FromBE(msg_buf, pos)
          p1 == pos + 4
      IN
      IF Len(msg_buf) - p1 < blob_len THEN keys
      ELSE
        LET blob == Slice(msg_buf, p1, p1 + blob_len)
            p2 == p1 + blob_len
        IN
        IF Len(msg_buf) < p2 + 4 THEN keys
        ELSE
          LET comment_len == FromBE(msg_buf, p2)
              p3 == p2 + 4
          IN
          IF Len(msg_buf) - p3 < comment_len THEN keys
          ELSE
            LET comment == Utf8Lossy(Slice(msg_buf, p3, p3 + comment_len))
            IN  parse_keys(msg_buf, p3 + comment_len, n - 1,
                           Append(keys, from_blob(key_type_of(blob), blob, comment)))

\* An upstream exchange that failed (connect refused, read or write error).
IoErr == [err |-> TRUE, frame |-> << >>]

\* An upstream exchange that returned the frame f.
Reply(f) == [err |-> FALSE, frame |-> f]

\* Agent::list_keys, given what the exchange with upstream returned:
\* [ok |-> the call returned Ok, keys |-> the vector].
list_keys(reply) ==
    IF reply.err THEN [ok |-> FALSE, keys |-> << >>]
    ELSE
      LET msg_buf == Slice(reply.frame, 4, Len(reply.frame))
      IN
      IF msg_buf = << >> \/ msg_buf[1] # SSH_AGENT_IDENTITIES_ANSWER
      THEN [ok |-> FALSE, keys |-> << >>]
      ELSE IF Len(msg_buf) < 1 + 4 THEN [ok |-> TRUE, keys |-> << >>]
      ELSE [ok |-> TRUE, keys |-> parse_keys(msg_buf, 5, FromBE(msg_buf, 1), << >>)]

(***************************************************************************)
(* socket.rs: FilteredSocket, the pure parts.  A policy is                 *)
(* [allowed |-> set of fingerprints, denied |-> set of fingerprints].      *)
(***************************************************************************)
\* Mutation of is_key_allowed: the allow-list is consulted before the deny-list.
is_key_allowed_allowfirst(policy, key) ==
    IF policy.allowed = {} THEN TRUE
    ELSE IF key.fingerprint \in policy.allowed THEN TRUE
    ELSE key.fingerprint \notin policy.denied

\* Mutation of is_key_allowed: the deny-list is not consulted.
is_key_allowed_nodeny(policy, key) ==
    IF policy.allowed = {} THEN TRUE
    ELSE key.fingerprint \in policy.allowed

\* Mutation of is_key_allowed: an empty allow-list admits nothing.
is_key_allowed_emptydeny(policy, key) ==
    IF key.fingerprint \in policy.denied THEN FALSE
    ELSE key.fingerprint \in policy.allowed

\* FilteredSocket::is_key_allowed
is_key_allowed(policy, key) ==
    IF key.fingerprint \in policy.denied THEN FALSE
    ELSE IF policy.allowed = {} THEN TRUE
    ELSE key.fingerprint \in policy.allowed

\* Mutation of encode_key: the comment is written before the blob.
encode_key_swapped(key) ==
    U32BE(Len(key.comment)) \o key.comment \o U32BE(Len(key.blob)) \o key.blob

\* One identity of a type-12 body: blob string, comment string.
encode_key(key) ==
    U32BE(Len(key.blob)) \o key.blob \o U32BE(Len(key.comment)) \o key.comment

\* Mutation of encode_identities: the length prefix counts itself too.
encode_identities_selfcount(keys) ==
    LET new_response ==
          << SSH_AGENT_IDENTITIES_ANSWER >> \o U32BE(Len(keys))
          \o Concat([i \in 1..Len(keys) |-> encode_key(keys[i])])
    IN  U32BE(Len(new_response) + 4) \o new_response

\* The frame FilteredSocket::filter_identities_response builds from the
\* keys it kept (socket.rs:61-92).
encode_identities(keys) ==
    LET new_response ==
          << SSH_AGENT_IDENTITIES_ANSWER >> \o U32BE(Len(keys))
          \o Concat([i \in 1..Len(keys) |-> encode_key(keys[i])])
    IN  U32BE(Len(new_response)) \o new_response

\* Mutation of filter_keys: the listing is rebuilt from all keys, none filtered.
filter_keys_all(policy, all_keys) == all_keys

\* Mutation of filter_keys: the keys kept come out in reverse order.
filter_keys_reversed(policy, all_keys) ==
    LET kept == SelectSeq(all_keys, LAMBDA k :
                    IF k.fingerprint \in policy.denied THEN FALSE
                    ELSE IF policy.allowed = {} THEN TRUE
                    ELSE k.fingerprint \in policy.allowed)
    IN  [i \in 1..Len(kept) |-> kept[Len(kept) + 1 - i]]

\* all_keys.iter().filter(|k| self.is_key_allowed(k)) (socket.rs:56-59)
filter_keys(policy, all_keys) ==
    SelectSeq(all_keys, LAMBDA k : is_key_allowed(policy, k))

\* Whether filter_identities_response rewrites the response (it is a
\* type-12 frame) or hands it back unchanged (socket.rs:49-52).
is_identities_answer(response) ==
    Len(response) >= 5 /\ response[5] = SSH_AGENT_IDENTITIES_ANSWER

\* FilteredSocket::should_filter_request
should_filter_request(request) ==
    Len(request) > 4 /\ request[5] = SSH_AGENTC_SIGN_REQUEST

\* Whether filter_sign_request finds a key blob in the request; when it
\* does not it returns Ok(None) without asking upstream (socket.rs:105-119).
sign_blob_parses(request) ==
    Len(request) >= 9 /\ Len(request) - 9 >= FromBE(request, 5)

\* The key blob of a sign request (socket.rs:121).
sign_blob(request) == Slice(request, 9, 9 + FromBE(request, 5))

\* SSH_AGENT_FAILURE, as filter_sign_request builds it (socket.rs:129).
failure_response == << 0, 0, 0, 1, SSH_AGENT_FAILURE >>

\* Mutation of sign_refused: a key that is not allowed is let through.
sign_refused_never(policy, blob, all_keys) == FALSE

\* Mutation of sign_refused: every sign request is refused.
sign_refused_always(policy, blob, all_keys) == TRUE

\* The loop of filter_sign_request (socket.rs:125-134): the first key whose
\* blob equals the request's blob decides; TRUE when it is not allowed.
sign_refused(policy, blob, all_keys) ==
    \E i \in 1..Len(all_keys) :
        /\ all_keys[i].blob = blob
        /\ \A j \in 1..(i - 1) : all_keys[j].blob # blob
        /\ ~is_key_allowed(policy, all_keys[i])

(***************************************************************************)
(* The environment: the upstream agent and the downstream clients.         *)
(***************************************************************************)
BlobA == << 0, 0, 0, 1, 65 >>
BlobB == << 66 >>

\* The identities upstream may hold: blob and comment bytes as upstream
\* stores them.  The comment of IdB is not valid UTF-8.
IdA == [blob |-> BlobA, comment |-> << 119 >>]
IdB == [blob |-> BlobB, comment |-> << 255 >>]
Identities == {IdA, IdB}

\* The type-12 frame a conforming agent answers a type-11 request with.
upstream_identities_answer(held) ==
    LET body == << SSH_AGENT_IDENTITIES_ANSWER >> \o U32BE(Len(held))
                \o Concat([i \in 1..Len(held) |-> encode_key(held[i])])
    IN  U32BE(Len(body)) \o body

\* A type-12 frame that declares one identity more than it carries: after
\* the identities held comes a string whose length runs past the body.
upstream_malformed_answer(held) ==
    LET body == << SSH_AGENT_IDENTITIES_ANSWER >> \o U32BE(Len(held) + 1)
                \o Concat([i \in 1..Len(held) |-> encode_key(held[i])])
                \o << 0, 0, 0, 9, 1 >>
    IN  U32BE(Len(body)) \o body

\* Whether upstream holds an identity with this blob.
Holds(held, blob) == \E i \in 1..Len(held) : held[i].blob = blob

\* The type-14 frame upstream signs a request for blob with.
upstream_sign_response(blob) ==
    LET body == << 14 >> \o U32BE(Len(blob)) \o blob
    IN  U32BE(Len(body)) \o body

\* What a conforming agent holding `held` answers to the frame `request`.
upstream_answer(request, held) ==
    IF Len(request) < 5 THEN failure_response
    ELSE IF request[5] = SSH_AGENTC_REQUEST_IDENTITIES
         THEN upstream_identities_answer(held)
    ELSE IF request[5] = SSH_AGENTC_SIGN_REQUEST
         THEN IF sign_blob_parses(request) /\ Holds(held, sign_blob(request))
              THEN upstream_sign_response(sign_blob(request))
              ELSE failure_response
    ELSE << 0, 0, 0, 1, 6 >>

\* The ways one exchange with upstream can go: a conforming answer, an
\* SSH_AGENT_FAILURE answer, a malformed listing, no answer (connect
\* refused, or the stream ends before the whole frame is read).
UpstreamModes(request) ==
    {"ok", "failure", "unreachable"}
    \cup (IF Len(request) >= 5 /\ request[5] = SSH_AGENTC_REQUEST_IDENTITIES
          THEN {"malformed"} ELSE {})

\* The path Agent::connect connects to (agent.rs:47-52): upstream_path,
\* or the value of SSH_AUTH_SOCK when upstream_path is empty.  "" stands
\* for no path: SSH_AUTH_SOCK unset (connect returns the error) or empty
\* (connecting to "" fails).
connect_path(upstream_path, auth_sock) ==
    IF upstream_path = "" THEN auth_sock ELSE upstream_path

\* Agent::connect (agent.rs:46-56) and what follows it: with no path to
\* connect to every exchange ends in an error.
AgentModes(upstream_path, auth_sock, request) ==
    IF connect_path(upstream_path, auth_sock) = "" THEN {"unreachable"}
    ELSE UpstreamModes(request)

\* The outcome of one exchange (Agent::connect, write_all, read_exact).
upstream_exchange(request, held, mode) ==
    CASE mode = "ok" -> Reply(upstream_answer(request, held))
      [] mode = "failure" -> Reply(failure_response)
      [] mode = "malformed" -> Reply(upstream_malformed_answer(held))
      [] OTHER -> IoErr

\* The request Agent::list_keys writes (agent.rs:62).
list_request == << 0, 0, 0, 1, SSH_AGENTC_REQUEST_IDENTITIES >>

\* A type-13 frame for blob: blob string, data string, flags.
sign_request(blob) ==
    LET body == << SSH_AGENTC_SIGN_REQUEST >> \o U32BE(Len(blob)) \o blob
                \o << 0, 0, 0, 1, 7 >> \o << 0, 0, 0, 0 >>
    IN  U32BE(Len(body)) \o body

\* The complete frames a client sends: a list request, sign requests, a
\* sign request too short to hold a blob length, a sign request whose blob
\* length runs past the body, an extension request, a request of another
\* type with a body, an empty frame.
ClientFrames ==
    { list_request, sign_request(BlobA), sign_request(BlobB),
      << 0, 0, 0, 3, 13, 0, 0 >>, << 0, 0, 0, 6, 13, 0, 0, 0, 9, 65 >>,
      << 0, 0, 0, 1, 27 >>, << 0, 0, 0, 3, 17, 11, 13 >>, << 0, 0, 0, 0 >> }

\* Length prefixes a client sends with no body the model can hold.
OversizePrefixes == { << 255, 255, 255, 255 >>, << 0, 16, 0, 1 >> }

(***************************************************************************)
(* The state.                                                              *)
(***************************************************************************)
Endpoints == {1, 2}

\* The connections clients make; the first MAX_CONCURRENT_CONNECTIONS + 2
\* go to endpoint 1 (two more than its gate admits, so that a connection
\* can arrive after one was rejected), the last to endpoint 2.
Conns == 1..(MAX_CONCURRENT_CONNECTIONS + 3)
ConnEp(c) == IF c <= MAX_CONCURRENT_CONNECTIONS + 2 THEN 1 ELSE 2

FpA == calculate_fingerprint(BlobA)
FpB == calculate_fingerprint(BlobB)

\* The policies an endpoint is configured with: every allow-list and
\* deny-list over the fingerprints of the two identities.
Policies ==
    [allowed : SUBSET {FpA, FpB}, denied : SUBSET {FpA, FpB}]

VARIABLES
    config,     \* main's Config: upstream path, configured sockets; and the
                \* value of SSH_AUTH_SOCK in the process's environment
    mainPc,     \* main: "config", "starting", "running" (awaits ctrl_c),
                \* "returned" (Ok), "failed_..." (Err) with its cause, or
                \* "killed" (the process was killed by a signal)
    handler,    \* the SIGINT handler of tokio::signal::ctrl_c() is installed
    sigint,     \* a termination signal was delivered to the process
    pol,        \* endpoint -> policy (FilteredSocket::new)
    file,       \* endpoint -> what is at its path: "none", "stale", "socket"
    accepting,  \* endpoint -> its accept loop runs (the listener is bound)
    permits,    \* endpoint -> available permits of its semaphore
    backlog,    \* endpoint -> connections made and not yet accepted
    pc,         \* connection -> where it is: "idle", "queued", "rejected",
                \* a worker at "read", "sign_check", "forward", "filter",
                \* ended as "done" (Ok) or "failed" (Err), or "killed"
    stream,     \* connection -> the client's end as the worker finds it:
                \* "open"; "eof", closed with nothing unread (a read gives
                \* no byte); "reset", closed with a response unread (a
                \* read gives ECONNRESET); "hungup", closed while its
                \* request is being handled (a write gives EPIPE)
    req,        \* connection -> full_request of the request being handled
    ex,         \* connection -> the upstream exchanges made for that request
    down,       \* connection -> the frames written downstream for that request
    upKeys,     \* the identities upstream holds, in its listing order
    startLog,   \* the calls of start recorded: what was at the path, what
                \* the file system allowed, the result
    fnIn,       \* the arguments of a pure function under check
    fnOut       \* its result

vars == << config, mainPc, handler, sigint, pol, file, accepting, permits, backlog, pc,
           stream, req, ex, down, upKeys, startLog, fnIn, fnOut >>

routerVars == << config, mainPc, handler, sigint, pol, file, accepting, permits,
                 backlog, pc, stream, req, ex, down, upKeys, startLog >>

\* One exchange with upstream: the frame written, what upstream held when
\* the frame arrived, and what came back.
Exchange(request, held, reply) ==
    [req |-> request, held |-> held, reply |-> reply]

\* The upstream path of a configuration that names an agent socket.
AgentSock == "agent.sock"

\* The configurations main ends up with (main.rs:18-50), and the
\* environment it runs in.  upstream is "" when config.toml says so or has
\* no upstream, or when --upstream is not given and SSH_AUTH_SOCK is not
\* set; sockets is the set of endpoints configured, none or both;
\* auth_sock is the value of SSH_AUTH_SOCK, "" when it is unset or empty.
Configs ==
    [upstream : {"", AgentSock}, sockets : {{}, Endpoints}, auth_sock : {"", AgentSock}]

\* What is at an endpoint's path before the router starts: nothing, a
\* file (a regular file or a socket left behind), a directory, or a
\* symbolic link to nothing.  "socket" is the bound listener's file.
PathKinds == {"none", "stale", "dir", "dangling"}

\* The process starts: main has its configuration; something may be left
\* at an endpoint's path.
InitStartup ==
    /\ config \in Configs
    /\ mainPc = "config"
    /\ handler = FALSE
    /\ sigint = FALSE
    /\ pol \in [Endpoints -> Policies]
    /\ pol[1] = [allowed |-> {FpA}, denied |-> {}]
    /\ pol[2] = [allowed |-> {FpB}, denied |-> {}]
    /\ file \in [Endpoints -> PathKinds]
    /\ accepting = [e \in Endpoints |-> FALSE]
    /\ permits = [e \in Endpoints |-> 0]
    /\ backlog = [e \in Endpoints |-> << >>]
    /\ pc = [c \in Conns |-> "idle"]
    /\ stream = [c \in Conns |-> "open"]
    /\ req = [c \in Conns |-> << >>]
    /\ ex = [c \in Conns |-> << >>]
    /\ down = [c \in Conns |-> << >>]
    /\ upKeys = << IdA, IdB >>
    /\ startLog = << >>
    /\ fnIn = << >>
    /\ fnOut = << >>

\* The process starts with a configuration that names the upstream agent
\* and both endpoints; nothing or a file is at each endpoint's path.
InitRouter ==
    /\ InitStartup
    /\ config = [upstream |-> AgentSock, sockets |-> Endpoints, auth_sock |-> ""]
    /\ file \in [Endpoints -> {"none", "stale"}]

\* The router in service: main has started every endpoint and awaits
\* ctrl_c (main.rs:84); endpoint 1 has any of the policies.
Init ==
    /\ config = [upstream |-> AgentSock, sockets |-> Endpoints, auth_sock |-> ""]
    /\ mainPc = "running"
    /\ handler = TRUE
    /\ sigint = FALSE
    /\ pol \in [Endpoints -> Policies]
    /\ pol[2] = [allowed |-> {FpB}, denied |-> {}]
    /\ file = [e \in Endpoints |-> "socket"]
    /\ accepting = [e \in Endpoints |-> TRUE]
    /\ permits = [e \in Endpoints |-> MAX_CONCURRENT_CONNECTIONS]
    /\ backlog = [e \in Endpoints |-> << >>]
    /\ pc = [c \in Conns |-> "idle"]
    /\ stream = [c \in Conns |-> "open"]
    /\ req = [c \in Conns |-> << >>]
    /\ ex = [c \in Conns |-> << >>]
    /\ down = [c \in Conns |-> << >>]
    /\ upKeys = << IdA, IdB >>
    /\ startLog = << >>
    /\ fnIn = << >>
    /\ fnOut = << >>

(***************************************************************************)
(* main.rs: main, and FilteredSocket::start / Drop.                        *)
(***************************************************************************)
\* The endpoint main starts next: the sockets are started in order.
NextToStart == CHOOSE e \in Endpoints : ~accepting[e] /\ \A d \in Endpoints : d < e => accepting[d]

\* std::fs::remove_file on what is at a path: a directory is not removed
\* (the call fails), anything else is.
remove_file(kind) == IF kind = "dir" THEN "dir" ELSE "none"

\* Drop for FilteredSocket: remove_file(path), errors ignored.
drop_socket(f, e) == [f EXCEPT ![e] = remove_file(f[e])]

\* Dropping `sockets`, the FilteredSocket values main started, when main
\* returns: the file of each started endpoint is removed.
drop_all(f) == [e \in Endpoints |-> IF f[e] = "socket" THEN "none" ELSE f[e]]

\* main.rs:52-63: with no socket configured main prints a hint and
\* returns Ok(()); otherwise it builds the Agent from config.upstream,
\* whatever that is, and goes on to start the sockets.
CheckConfig ==
    /\ mainPc = "config"
    /\ mainPc' = IF config.sockets = {} THEN "returned" ELSE "starting"
    /\ UNCHANGED << config, sigint, pol, file, accepting, permits, backlog, pc, req,
                    ex, down, upKeys, startLog, fnIn, fnOut,
                    handler, stream >>

\* What the file system lets start do at an endpoint's path: everything,
\* everything after the missing parent directory is created, not create
\* the parent directory, not change the directory the path is in.
StartEnvs(kind) ==
    IF kind = "none" THEN {"ok", "parent_missing", "mkdir_failed", "denied"}
    ELSE {"ok", "denied"}

\* Mutation of path_exists: nothing is found at the path.
path_exists_never(kind) == FALSE

\* self.path.exists() (socket.rs:202): Path::exists follows symbolic
\* links, so a link to nothing does not exist.
path_exists(kind) == kind \in {"stale", "dir", "socket"}

\* FilteredSocket::start up to the bind (socket.rs:201-214): "bound", or
\* the cause of the error returned.
start_result(kind, env) ==
    LET removed == IF path_exists(kind) THEN remove_file(kind) ELSE kind
    IN
    IF path_exists(kind) /\ env = "denied" THEN "failed_denied"
    ELSE IF path_exists(kind) /\ removed # "none" THEN "failed_is_directory"
    ELSE IF env = "mkdir_failed" THEN "failed_mkdir"
    ELSE IF removed # "none" THEN "failed_in_use"
    ELSE IF env = "denied" THEN "failed_denied"
    ELSE "bound"

\* filtered_socket.start().await? (main.rs:67-78, socket.rs:197-263): the
\* stale file is removed, the listener bound, the accept loop spawned; or
\* binding fails and main returns the error, dropping every socket.
StartEndpoint(log) ==
    /\ mainPc = "starting"
    /\ LET e == NextToStart IN
       \E env \in StartEnvs(file[e]) :
         LET result == start_result(file[e], env) IN
         /\ startLog' = IF log
                        THEN Append(startLog, [kind |-> file[e], env |-> env,
                                               result |-> result])
                        ELSE startLog
         /\ IF result = "bound"
            THEN /\ file' = [file EXCEPT ![e] = "socket"]
                 /\ accepting' = [accepting EXCEPT ![e] = TRUE]
                 /\ permits' = [permits EXCEPT ![e] = MAX_CONCURRENT_CONNECTIONS]
                 /\ mainPc' = IF \A d \in Endpoints \ {e} : accepting[d]
                              THEN "running" ELSE "starting"
            ELSE /\ file' = IF env = "denied" THEN drop_all(file)
                            ELSE drop_socket(drop_all(file), e)
                 /\ mainPc' = result
                 /\ UNCHANGED << accepting, permits >>
    /\ UNCHANGED << config, sigint, pol, backlog, pc, req, ex, down, upKeys, fnIn, fnOut,
                    handler, stream >>

\* main.rs:80-84: after the last start() main prints two lines and
\* reaches tokio::signal::ctrl_c().await, which installs the SIGINT
\* handler; it stays installed for the rest of the process's life.
AwaitCtrlC ==
    /\ mainPc = "running"
    /\ ~handler
    /\ handler' = TRUE
    /\ UNCHANGED << config, mainPc, sigint, pol, file, accepting, permits, backlog, pc,
                    stream, req, ex, down, upKeys, startLog, fnIn, fnOut >>

\* The process exists: main has not returned, or it has and the runtime's
\* drop waits for an accept loop (spawn_blocking, socket.rs:227-260),
\* which never returns.
ProcessAlive ==
    /\ mainPc # "killed"
    /\ \/ mainPc \in {"config", "starting", "running"}
       \/ \E e \in Endpoints : accepting[e]

\* The signals that end the router: Ctrl+C and the default of kill(1),
\* launchd and systemd.
Signals == {"SIGINT", "SIGTERM"}

\* Whether the process intercepts the signal: main.rs installs one handler,
\* that of tokio::signal::ctrl_c() for SIGINT (main.rs:84); SIGTERM has no
\* handler anywhere.
signal_handled(sig, installed) == sig = "SIGINT" /\ installed

\* A termination signal the process does not intercept (SIGTERM at any
\* time, SIGINT before main has reached ctrl_c) takes its default action:
\* the process is killed where it stands.  No destructor runs, so no
\* socket file is removed; the listeners and every connection are closed
\* by the kernel.
Terminate(sig) ==
    /\ ProcessAlive
    /\ ~signal_handled(sig, handler)
    /\ sigint' = TRUE
    /\ mainPc' = "killed"
    /\ accepting' = [e \in Endpoints |-> FALSE]
    /\ backlog' = [e \in Endpoints |-> << >>]
    /\ pc' = [c \in Conns |->
                IF pc[c] \in {"idle", "done", "failed", "rejected"} THEN pc[c]
                ELSE "killed"]
    /\ UNCHANGED << config, handler, pol, file, permits, stream, req, ex, down, upKeys,
                    startLog, fnIn, fnOut >>

\* A SIGINT the process intercepts: the handler of ctrl_c() records it, and
\* the ctrl_c() future main awaits (main.rs:84) resolves.  A further
\* SIGINT is intercepted too and changes nothing.
Signal ==
    /\ ProcessAlive
    /\ signal_handled("SIGINT", handler)
    /\ sigint' = TRUE
    /\ UNCHANGED << config, mainPc, handler, pol, file, accepting, permits, backlog, pc,
                    stream, req, ex, down, upKeys, startLog, fnIn, fnOut >>

\* main returns Ok(()) after ctrl_c (main.rs:84-88): `sockets` is dropped.
\* Nothing tells the accept loops to stop.
MainShutdown ==
    /\ mainPc = "running"
    /\ sigint
    /\ mainPc' = "returned"
    /\ file' = drop_all(file)
    /\ UNCHANGED << config, sigint, pol, accepting, permits, backlog, pc, req, ex, down,
                    upKeys, startLog, fnIn, fnOut,
                    handler, stream >>

(***************************************************************************)
(* socket.rs: the accept loop of FilteredSocket::start.                    *)
(***************************************************************************)
\* A client connects to the endpoint's path.
Connect(c) ==
    /\ pc[c] = "idle"
    /\ file[ConnEp(c)] = "socket"
    /\ accepting[ConnEp(c)]
    /\ pc' = [pc EXCEPT ![c] = "queued"]
    /\ backlog' = [backlog EXCEPT ![ConnEp(c)] = Append(@, c)]
    /\ UNCHANGED << config, mainPc, sigint, pol, file, accepting, permits, req, ex, down,
                    upKeys, startLog, fnIn, fnOut,
                    handler, stream >>

\* Mutation of reject_drop: a rejected connection's socket value is not dropped.
reject_keep(f, e) == f

\* The per-connection FilteredSocket built at socket.rs:231-236 is dropped,
\* with the stream, when no permit is available (socket.rs:250-252).
reject_drop(f, e) == drop_socket(f, e)

\* Mutation of try_acquire: a permit is granted whether or not one is left.
try_acquire_always(available) == TRUE

\* Mutation of try_acquire: one connection more than the permits is served.
try_acquire_spare(available) == available >= 0

\* semaphore.try_acquire_owned() succeeds (socket.rs:240): a permit is left.
try_acquire(available) == available > 0

\* listener.incoming() yields a stream (socket.rs:228-253): with a permit a
\* worker thread is spawned, without one the connection is dropped.
Accept(e) ==
    /\ accepting[e]
    /\ backlog[e] # << >>
    /\ LET c == Head(backlog[e]) IN
       /\ backlog' = [backlog EXCEPT ![e] = Tail(@)]
       /\ IF try_acquire(permits[e])
          THEN /\ permits' = [permits EXCEPT ![e] = @ - 1]
               /\ pc' = [pc EXCEPT ![c] = "read"]
               /\ UNCHANGED file
          ELSE /\ pc' = [pc EXCEPT ![c] = "rejected"]
               /\ file' = reject_drop(file, e)
               /\ UNCHANGED permits
    /\ UNCHANGED << config, mainPc, sigint, pol, accepting, req, ex, down, upKeys, startLog, fnIn, fnOut,
                    handler, stream >>

(***************************************************************************)
(* socket.rs: FilteredSocket::handle_client, one worker per connection.    *)
(* Each action is one blocking step of the loop: reading a request, or one *)
(* exchange with upstream and what the code does with its outcome.         *)
(***************************************************************************)
\* What a client does where the worker reads a length prefix: closes the
\* stream having read everything written to it (eof: the read gives no
\* byte) or with a response unread (reset: the read gives ECONNRESET),
\* sends a complete frame, or sends a length prefix and no (complete) body.
ClientInputs ==
    { [kind |-> "eof", bytes |-> << >>], [kind |-> "reset", bytes |-> << >>] }
    \cup { [kind |-> "frame", bytes |-> f] : f \in ClientFrames }
    \cup { [kind |-> "prefix", bytes |-> p] : p \in OversizePrefixes \cup { << 0, 0, 0, 2 >> } }

\* msg_len > MAX_MESSAGE_SIZE (socket.rs:155)
too_large(len_buf) == FromBE(len_buf, 0) > MAX_MESSAGE_SIZE

\* let is_list = !request.is_empty() && request[0] == 11 (socket.rs:169)
is_list(full_request) ==
    Len(full_request) > 4 /\ full_request[5] = SSH_AGENTC_REQUEST_IDENTITIES

\* Mutation of release: the permit of a finished worker is not given back.
release_leak(available) == available

\* `_permit` is dropped where the worker's closure ends (socket.rs:244).
release(available) == available + 1

\* The worker's closure ends (socket.rs:242-248): the permit is released
\* and the per-connection FilteredSocket is dropped, which removes the file
\* at the endpoint's path.
EndWorker(c, how) ==
    /\ pc' = [pc EXCEPT ![c] = how]
    /\ permits' = [permits EXCEPT ![ConnEp(c)] = release(@)]
    /\ file' = drop_socket(file, ConnEp(c))

\* The worker goes on in the loop.
Continue(c, to) ==
    /\ pc' = [pc EXCEPT ![c] = to]
    /\ UNCHANGED << permits, file >>

\* Mutation of read_prefix_end: the end of the stream is an error too.
read_prefix_end_err(kind) == "failed"

\* How the worker ends when read_exact of the length prefix fails
\* (socket.rs:146-150): UnexpectedEof leaves the loop and handle_client
\* returns Ok(()), any other error is returned.
read_prefix_end(kind) == IF kind = "eof" THEN "done" ELSE "failed"

\* socket.rs:143-178: the length prefix is read (end of stream there ends
\* the loop), a length above MAX_MESSAGE_SIZE or a body that does not come
\* is an error; a sign request with a key blob is checked next, anything
\* else forwarded.
ReadRequest(c, inputs) ==
    /\ pc[c] = "read"
    /\ \E in \in inputs :
         /\ req' = [req EXCEPT ![c] = in.bytes]
         /\ ex' = [ex EXCEPT ![c] = << >>]
         /\ down' = [down EXCEPT ![c] = << >>]
         /\ stream' = [stream EXCEPT ![c] =
                          IF in.kind \in {"eof", "reset"} THEN in.kind ELSE @]
         /\ IF in.kind \in {"eof", "reset"} THEN EndWorker(c, read_prefix_end(in.kind))
            ELSE IF too_large(in.bytes) THEN EndWorker(c, "failed")
            ELSE IF in.kind = "prefix" THEN EndWorker(c, "failed")
            ELSE IF should_filter_request(in.bytes) /\ sign_blob_parses(in.bytes)
                 THEN Continue(c, "sign_check")
                 ELSE Continue(c, "forward")
    /\ UNCHANGED << config, mainPc, handler, sigint, pol, accepting, backlog, upKeys,
                    startLog, fnIn, fnOut >>

\* The client closes its end of the connection while the worker is busy
\* with the request it sent.
ClientClose(c) ==
    /\ pc[c] \in {"sign_check", "forward", "filter"}
    /\ stream[c] = "open"
    /\ stream' = [stream EXCEPT ![c] = "hungup"]
    /\ UNCHANGED << config, mainPc, handler, sigint, pol, file, accepting, permits,
                    backlog, pc, req, ex, down, upKeys, startLog, fnIn, fnOut >>

\* stream.write_all(&frame)? (socket.rs:174, 190): writing to a connection
\* the client has closed is an error (EPIPE).
write_fails(client_end) == client_end # "open"

\* stream.write_all(&frame)?; stream.flush()? (socket.rs:174-176,
\* 190-191): the frame is written and the worker goes on to read the next
\* request, or the write fails and handle_client returns the error.
WriteResponse(c, frame) ==
    IF write_fails(stream[c])
    THEN EndWorker(c, "failed") /\ UNCHANGED down
    ELSE /\ down' = [down EXCEPT ![c] = frame]
         /\ Continue(c, "read")

\* filter_sign_request from its list_keys call on (socket.rs:123-136) and
\* the caller's branch (socket.rs:173-178).
SignCheck(c) ==
    /\ pc[c] = "sign_check"
    /\ \E mode \in AgentModes(config.upstream, config.auth_sock, list_request) :
         LET reply == upstream_exchange(list_request, upKeys, mode)
             all_keys == list_keys(reply)
         IN
         /\ ex' = [ex EXCEPT ![c] = Append(@, Exchange(list_request, upKeys, reply))]
         /\ IF ~all_keys.ok
            THEN EndWorker(c, "failed") /\ UNCHANGED down
            ELSE IF sign_refused(pol[ConnEp(c)], sign_blob(req[c]), all_keys.keys)
                 THEN WriteResponse(c, failure_response)
                 ELSE Continue(c, "forward") /\ UNCHANGED down
    /\ UNCHANGED << config, mainPc, sigint, pol, accepting, backlog, req, upKeys, startLog, fnIn, fnOut,
                    handler, stream >>

\* Mutation of forward_response: the length prefix is not put back.
forward_response_body(frame) == Slice(frame, 4, Len(frame))

\* Mutation of forward_response: the response is lost, nothing is written.
forward_response_none(frame) == << >>

\* What Agent::forward_request returns for the frame upstream sent
\* (agent.rs:161-174): the four bytes of the length, then as many bytes of
\* body as they announce.
forward_response(frame) ==
    LET len_buf == Slice(frame, 0, 4)
        response == Slice(frame, 4, 4 + FromBE(len_buf, 0))
    IN  len_buf \o response

\* self.agent.forward_request(&full_request)? and, unless the response to
\* a list request is a type-12 frame, the write of the response
\* (socket.rs:180-191, 49-52; agent.rs:155-175).
Forward(c) ==
    /\ pc[c] = "forward"
    /\ \E mode \in AgentModes(config.upstream, config.auth_sock, req[c]) :
         LET reply == upstream_exchange(req[c], upKeys, mode) IN
         /\ ex' = [ex EXCEPT ![c] = Append(@, Exchange(req[c], upKeys, reply))]
         /\ IF reply.err
            THEN EndWorker(c, "failed") /\ UNCHANGED down
            ELSE IF is_list(req[c]) /\ is_identities_answer(reply.frame)
                 THEN Continue(c, "filter") /\ UNCHANGED down
                 ELSE WriteResponse(c, forward_response(reply.frame))
    /\ UNCHANGED << config, mainPc, sigint, pol, accepting, backlog, req, upKeys, startLog, fnIn, fnOut,
                    handler, stream >>

\* filter_identities_response from its list_keys call on (socket.rs:54-92)
\* and the write of the rebuilt frame (socket.rs:190-191).
FilterList(c) ==
    /\ pc[c] = "filter"
    /\ \E mode \in AgentModes(config.upstream, config.auth_sock, list_request) :
         LET reply == upstream_exchange(list_request, upKeys, mode)
             all_keys == list_keys(reply)
         IN
         /\ ex' = [ex EXCEPT ![c] = Append(@, Exchange(list_request, upKeys, reply))]
         /\ IF ~all_keys.ok
            THEN EndWorker(c, "failed") /\ UNCHANGED down
            ELSE WriteResponse(c, encode_identities(
                                      filter_keys(pol[ConnEp(c)], all_keys.keys)))
    /\ UNCHANGED << config, mainPc, sigint, pol, accepting, backlog, req, upKeys, startLog, fnIn, fnOut,
                    handler, stream >>

(***************************************************************************)
(* The upstream agent's identities change (ssh-add, ssh-add -d).           *)
(***************************************************************************)
UpstreamAdd(k) ==
    /\ ~Holds(upKeys, k.blob)
    /\ upKeys' = Append(upKeys, k)
    /\ UNCHANGED << config, mainPc, sigint, pol, file, accepting, permits, backlog, pc,
                    req, ex, down, startLog, fnIn, fnOut,
                    handler, stream >>

UpstreamRemove(k) ==
    /\ Holds(upKeys, k.blob)
    /\ upKeys' = SelectSeq(upKeys, LAMBDA h : h.blob # k.blob)
    /\ UNCHANGED << config, mainPc, sigint, pol, file, accepting, permits, backlog, pc,
                    req, ex, down, startLog, fnIn, fnOut,
                    handler, stream >>

\* What the clients of the lifecycle specification do: close the stream,
\* send an extension request, or send an oversized length prefix.
LightInputs ==
    { [kind |-> "eof", bytes |-> << >>],
      [kind |-> "frame", bytes |-> << 0, 0, 0, 1, 27 >>],
      [kind |-> "prefix", bytes |-> << 255, 255, 255, 255 >>] }

\* The mediator: one client of endpoint 1 sends any of ClientInputs while
\* upstream's identities change.
Next ==
    \/ Connect(1)
    \/ \E e \in Endpoints : Accept(e)
    \/ ReadRequest(1, ClientInputs)
    \/ ClientClose(1)
    \/ \E c \in Conns : SignCheck(c)
    \/ \E c \in Conns : Forward(c)
    \/ \E c \in Conns : FilterList(c)
    \/ \E k \in Identities : UpstreamAdd(k)
    \/ \E k \in Identities : UpstreamRemove(k)

Spec == Init /\ [][Next]_vars

\* The router's life: startup, clients of both endpoints, shutdown.
NextRouter ==
    \/ CheckConfig
    \/ StartEndpoint(FALSE)
    \/ AwaitCtrlC
    \/ Signal
    \/ MainShutdown
    \/ \E c \in Conns : Connect(c)
    \/ \E e \in Endpoints : Accept(e)
    \/ \E c \in Conns : ReadRequest(c, LightInputs)
    \/ \E c \in Conns : Forward(c)

SpecRouter == InitRouter /\ [][NextRouter]_vars

\* The program's own threads take their steps when they can: main, the
\* accept loops, the workers' exchanges with upstream.  Clients and the
\* signal are free to act or not.
SpecRouterFair ==
    /\ SpecRouter
    /\ WF_vars(CheckConfig)
    /\ WF_vars(StartEndpoint(FALSE))
    /\ WF_vars(AwaitCtrlC)
    /\ WF_vars(MainShutdown)
    /\ \A e \in Endpoints : WF_vars(Accept(e))
    /\ \A c \in Conns : WF_vars(Forward(c))

\* The router's life with the signals it does not intercept as well.
NextSignals ==
    \/ NextRouter
    \/ \E sig \in Signals : Terminate(sig)

SpecSignals == InitRouter /\ [][NextSignals]_vars

\* The fairness of SpecRouterFair, for the same threads.
SpecSignalsFair ==
    /\ SpecSignals
    /\ WF_vars(CheckConfig)
    /\ WF_vars(StartEndpoint(FALSE))
    /\ WF_vars(AwaitCtrlC)
    /\ WF_vars(MainShutdown)
    /\ \A e \in Endpoints : WF_vars(Accept(e))
    /\ \A c \in Conns : WF_vars(Forward(c))

\* Startup in detail: every configuration, everything that may be at an
\* endpoint's path, the calls of start recorded; one client per endpoint.
NextStartup ==
    \/ CheckConfig
    \/ StartEndpoint(TRUE)
    \/ AwaitCtrlC
    \/ Signal
    \/ MainShutdown
    \/ \E c \in {1, MAX_CONCURRENT_CONNECTIONS + 3} : Connect(c)
    \/ \E e \in Endpoints : Accept(e)
    \/ \E c \in Conns : ReadRequest(c, LightInputs)
    \/ \E c \in Conns : Forward(c)

SpecStartup == InitStartup /\ [][NextStartup]_vars

(***************************************************************************)
(* The policy as a pure function: is_key_allowed and the listing rebuilt   *)
(* with it are applied to every policy over three fingerprints.            *)
(***************************************************************************)
BlobC == << 67 >>
FpC == calculate_fingerprint(BlobC)

\* What Agent::list_keys returns when upstream holds IdA and IdB.
BothKeys == list_keys(Reply(upstream_identities_answer(<< IdA, IdB >>))).keys

\* The router's own state while a pure function is under check: in
\* service, no client connected.
RouterIdle ==
    /\ config = [upstream |-> AgentSock, sockets |-> Endpoints, auth_sock |-> ""]
    /\ mainPc = "running"
    /\ handler = TRUE
    /\ sigint = FALSE
    /\ pol = [e \in Endpoints |-> [allowed |-> {}, denied |-> {}]]
    /\ file = [e \in Endpoints |-> "socket"]
    /\ accepting = [e \in Endpoints |-> TRUE]
    /\ permits = [e \in Endpoints |-> MAX_CONCURRENT_CONNECTIONS]
    /\ backlog = [e \in Endpoints |-> << >>]
    /\ pc = [c \in Conns |-> "idle"]
    /\ stream = [c \in Conns |-> "open"]
    /\ req = [c \in Conns |-> << >>]
    /\ ex = [c \in Conns |-> << >>]
    /\ down = [c \in Conns |-> << >>]
    /\ upKeys = << IdA, IdB >>
    /\ startLog = << >>

InitPolicy ==
    /\ RouterIdle
    /\ fnIn \in [policy : [allowed : SUBSET {FpA, FpB, FpC},
                           denied : SUBSET {FpA, FpB, FpC}],
                 blob : {BlobA, BlobB, BlobC}]
    /\ fnOut = << >>

\* is_key_allowed on the key with fnIn.blob, and the frame
\* filter_identities_response rebuilds from BothKeys, under fnIn.policy.
PolicyApply ==
    /\ fnOut = << >>
    /\ fnOut' = [admit |-> is_key_allowed(fnIn.policy,
                               from_blob(key_type_of(fnIn.blob), fnIn.blob, << >>)),
                 listing |-> encode_identities(filter_keys(fnIn.policy, BothKeys))]
    /\ UNCHANGED << routerVars, fnIn >>

SpecPolicy == InitPolicy /\ [][PolicyApply]_vars

(***************************************************************************)
(* The listing codec as a pair of pure functions: the encoder of           *)
(* filter_identities_response and the decoder Agent::list_keys, applied to *)
(* every list of at most MaxKeys keys.                                     *)
(***************************************************************************)
MaxKeys == 2

\* Well-formed identities as SshKey values: a blob with a key type, a
\* one-byte blob, an empty blob; as comment (a String) the empty text,
\* "w", and U+FFFD.
CodecKeys ==
    { from_blob(key_type_of(b), b, cm) :
        b \in {BlobA, BlobB, << >>},
        cm \in {<< >>, << 119 >>, << 239, 191, 189 >>} }

\* The sequences over S of length at most n.
SeqsUpTo(S, n) == UNION { [1..k -> S] : k \in 0..n }

InitCodec ==
    /\ RouterIdle
    /\ fnIn \in [keys : SeqsUpTo(CodecKeys, MaxKeys)]
    /\ fnOut = << >>

\* The frame socket.rs:61-92 builds from fnIn.keys, and what list_keys
\* makes of that frame.
CodecApply ==
    /\ fnOut = << >>
    /\ LET frame == encode_identities(fnIn.keys) IN
       fnOut' = [frame |-> frame, decoded |-> list_keys(Reply(frame))]
    /\ UNCHANGED << routerVars, fnIn >>

SpecCodec == InitCodec /\ [][CodecApply]_vars

(***************************************************************************)
(* cli.rs: SocketConfig::parse and SocketConfig::parse_spaced.  A string   *)
(* is a sequence of characters, each a one-character string.               *)
(***************************************************************************)
MaxStr == 6
MaxArgs == 5

\* The position of the first ch in s, 0 when there is none.
find(s, ch) ==
    IF \E i \in 1..Len(s) : s[i] = ch
    THEN CHOOSE i \in 1..Len(s) : s[i] = ch /\ \A j \in 1..(i - 1) : s[j] # ch
    ELSE 0

RECURSIVE split(_, _)
\* s.split(ch).collect(): the pieces between the occurrences of ch; a
\* string without ch, the empty one too, is one piece.
split(s, ch) ==
    LET k == find(s, ch) IN
    IF k = 0 THEN << s >>
    ELSE << SubSeq(s, 1, k - 1) >> \o split(SubSeq(s, k + 1, Len(s)), ch)

RECURSIVE trim_start(_)
trim_start(s) ==
    IF s # << >> /\ Head(s) = " " THEN trim_start(Tail(s)) ELSE s

RECURSIVE trim_end(_)
trim_end(s) ==
    IF s # << >> /\ s[Len(s)] = " " THEN trim_end(SubSeq(s, 1, Len(s) - 1)) ELSE s

\* str::trim, for the one white-space character of the model's strings.
trim(s) == trim_end(trim_start(s))

RECURSIVE classify_dash_allowed(_, _, _)
\* Mutation of classify: an entry with a leading '-' loses it and is allowed.
classify_dash_allowed(fingerprints, allowed, denied) ==
    IF fingerprints = << >> THEN [allowed |-> allowed, denied |-> denied]
    ELSE LET fp == trim(Head(fingerprints)) IN
         IF fp = << >> THEN classify_dash_allowed(Tail(fingerprints), allowed, denied)
         ELSE IF Head(fp) = "-"
              THEN classify_dash_allowed(Tail(fingerprints), Append(allowed, Tail(fp)), denied)
              ELSE classify_dash_allowed(Tail(fingerprints), Append(allowed, fp), denied)

RECURSIVE classify(_, _, _)
\* The loop over the fingerprints (cli.rs:90-100, 136-146): an entry is
\* trimmed, skipped when empty, pushed to denied without its '-' when it
\* starts with one, to allowed otherwise.
classify(fingerprints, allowed, denied) ==
    IF fingerprints = << >> THEN [allowed |-> allowed, denied |-> denied]
    ELSE LET fp == trim(Head(fingerprints)) IN
         IF fp = << >> THEN classify(Tail(fingerprints), allowed, denied)
         ELSE IF Head(fp) = "-"
              THEN classify(Tail(fingerprints), allowed, Append(denied, Tail(fp)))
              ELSE classify(Tail(fingerprints), Append(allowed, fp), denied)

\* The SocketConfig built from a path and a fingerprint list.
socket_config(path, fingerprints) ==
    LET lists == classify(split(fingerprints, ","), << >>, << >>) IN
    [path |-> path, allowed_fingerprints |-> lists.allowed,
     denied_fingerprints |-> lists.denied]

\* SocketConfig::parse (cli.rs:76-107): [ok |-> FALSE] is the Err.
parse(config_str) ==
    LET k == find(config_str, ":") IN
    IF k = 0 THEN [ok |-> FALSE]
    ELSE [ok |-> TRUE,
          config |-> socket_config(SubSeq(config_str, 1, k - 1),
                                   SubSeq(config_str, k + 1, Len(config_str)))]

\* "--"
Separator == << "-", "-" >>

RECURSIVE parse_spaced_from(_, _, _)
\* The loop of SocketConfig::parse_spaced (cli.rs:115-155), i 0-based.
parse_spaced_from(args, i, configs) ==
    IF i >= Len(args) THEN [ok |-> TRUE, configs |-> configs]
    ELSE IF args[i + 1] = Separator THEN parse_spaced_from(args, i + 1, configs)
    ELSE IF i + 1 >= Len(args)
         THEN LET last == parse(args[i + 1]) IN
              IF last.ok
              THEN parse_spaced_from(args, i + 1, Append(configs, last.config))
              ELSE [ok |-> FALSE, configs |-> << >>]
    ELSE parse_spaced_from(args, i + 2,
                           Append(configs, socket_config(args[i + 1], args[i + 2])))

\* Mutation of parse_spaced: the loop starts at the second argument.
parse_spaced_skipfirst(args) == parse_spaced_from(args, 1, << >>)

\* SocketConfig::parse_spaced
parse_spaced(args) == parse_spaced_from(args, 0, << >>)

\* The characters of the strings given to parse.
Chars == {"p", ":", ",", "-", " "}

\* The arguments given to parse_spaced: the separator, a path, a
\* fingerprint list with an allowed and a denied entry, a colon form.
Args ==
    { Separator, << "p" >>, << "a", ",", " ", "-", "b" >>, << "q", ":", "a" >> }

InitCli ==
    /\ RouterIdle
    /\ fnIn \in [fn : {"parse"}, arg : SeqsUpTo(Chars, MaxStr)]
               \cup [fn : {"parse_spaced"}, arg : SeqsUpTo(Args, MaxArgs)]
    /\ fnOut = << >>

ParseApply ==
    /\ fnOut = << >>
    /\ fnIn.fn = "parse"
    /\ fnOut' = parse(fnIn.arg)
    /\ UNCHANGED << routerVars, fnIn >>

ParseSpacedApply ==
    /\ fnOut = << >>
    /\ fnIn.fn = "parse_spaced"
    /\ fnOut' = parse_spaced(fnIn.arg)
    /\ UNCHANGED << routerVars, fnIn >>

SpecCli == InitCli /\ [][ParseApply \/ ParseSpacedApply]_vars

(***************************************************************************)
(* The properties.                                                         *)
(***************************************************************************)
\* admit(fingerprint) of an endpoint policy, as the design states it: a
\* fingerprint in the deny-set is refused, an empty allow-set admits the
\* rest, a non-empty allow-set admits only its members.
Admit(policy, fp) ==
    /\ fp \notin policy.denied
    /\ policy.allowed = {} \/ fp \in policy.allowed

\* The identities a type-12 frame carries, as many as can be read from it.
Entries(frame) == parse_keys(Slice(frame, 4, Len(frame)), 5, Big, << >>)

\* Whether an identity with this blob appears in a type-12 frame.
Appears(frame, blob) ==
    \E i \in 1..Len(Entries(frame)) : Entries(frame)[i].blob = blob

\* Connection c is handling, or has just answered, a sign request that
\* carries a key blob.
SignWithBlob(c) == should_filter_request(req[c]) /\ sign_blob_parses(req[c])

\* The exchange x returned a type-12 listing.
Listed(x) == ~x.reply.err /\ is_identities_answer(x.reply.frame)

\* The listing a list_keys call got is unusable or incomplete: no answer,
\* an answer of another type, or fewer identities than the frame declares.
ListingFailedOrIncomplete(x) ==
    \/ x.reply.err
    \/ ~is_identities_answer(x.reply.frame)
    \/ /\ Len(x.reply.frame) >= 9
       /\ FromBE(x.reply.frame, 5) > Len(list_keys(x.reply).keys)

\* Connection c was answered a type-12 frame to a list request.
ListAnswered(c) ==
    is_list(req[c]) /\ down[c] # << >> /\ is_identities_answer(down[c])

\* The identities of `held` the policy admits, in order.
AdmittedOf(policy, held) ==
    SelectSeq(held, LAMBDA k : Admit(policy, calculate_fingerprint(k.blob)))

\* C1 -- Sign refusal: a type-13 request whose key blob upstream lists in
\* the listing made for it, and whose fingerprint the endpoint's policy
\* does not admit, is answered with exactly [0,0,0,1,5]; the only frame
\* sent upstream for it is the list request (no type-13 frame), and the
\* worker is back at reading the next request of the same connection.
\* When the client has closed the connection meanwhile there is no one to
\* answer: nothing is written and the worker ends with the write's error,
\* still with no type-13 frame sent upstream.
C1_SignRefusal ==
    \A c \in Conns :
        ( /\ SignWithBlob(c)
          /\ Len(ex[c]) >= 1
          /\ Listed(ex[c][1])
          /\ Holds(ex[c][1].held, sign_blob(req[c]))
          /\ ~Admit(pol[ConnEp(c)], calculate_fingerprint(sign_blob(req[c]))) )
        => /\ Len(ex[c]) = 1
           /\ ex[c][1].req = list_request
           /\ IF stream[c] = "hungup"
              THEN down[c] = << >> /\ pc[c] = "failed"
              ELSE down[c] = << 0, 0, 0, 1, 5 >> /\ pc[c] = "read"

\* C1 witness: a sign request for BlobA, which upstream listed and the
\* policy forbids, has been refused.
C1_Witness ==
    \E c \in Conns :
        /\ req[c] = sign_request(BlobA)
        /\ Len(ex[c]) = 1
        /\ Listed(ex[c][1])
        /\ Holds(ex[c][1].held, BlobA)
        /\ ~Admit(pol[ConnEp(c)], FpA)
        /\ stream[c] = "open"
        /\ down[c] = failure_response
        /\ pc[c] = "read"

\* C2 -- No type-13 frame arrives at upstream through an endpoint for a
\* blob that upstream holds when the frame arrives and that the endpoint's
\* policy does not admit.
C2_NoForbiddenSignUpstream ==
    \A c \in Conns : \A i \in 1..Len(ex[c]) :
        ( /\ should_filter_request(ex[c][i].req)
          /\ sign_blob_parses(ex[c][i].req)
          /\ Holds(ex[c][i].held, sign_blob(ex[c][i].req)) )
        => Admit(pol[ConnEp(c)], calculate_fingerprint(sign_blob(ex[c][i].req)))

\* C3 -- List filtering: an identity appears in the type-12 answer to a
\* list request iff upstream held it when the listing was made and the
\* endpoint's policy admits its fingerprint.
C3_ListFiltering ==
    \A c \in Conns :
        ListAnswered(c)
        => /\ Len(ex[c]) = 2
           /\ \A k \in Identities :
                Appears(down[c], k.blob)
                <=> ( /\ Holds(ex[c][2].held, k.blob)
                      /\ Admit(pol[ConnEp(c)], calculate_fingerprint(k.blob)) )

\* C3 witness: upstream held IdA and IdB at the listing, and the answer
\* shows IdA and not IdB.
C3_Witness ==
    \E c \in Conns :
        /\ ListAnswered(c)
        /\ Len(ex[c]) = 2
        /\ ex[c][2].held = << IdA, IdB >>
        /\ Appears(down[c], BlobA)
        /\ ~Appears(down[c], BlobB)

\* C4 -- No leakage: in a type-12 answer to a list request the num_keys
\* field equals the number of identities that follow it and the number of
\* identities upstream held that the policy admits; the entries are those
\* admitted identities (blob, and comment as text), so no forbidden
\* identity is among them.
C4_NoLeakage ==
    \A c \in Conns :
        ListAnswered(c)
        => LET entries == Entries(down[c])
               admitted == AdmittedOf(pol[ConnEp(c)], ex[c][Len(ex[c])].held)
           IN  /\ FromBE(down[c], 5) = Len(entries)
               /\ Len(entries) = Len(admitted)
               /\ Len(down[c]) = Len(encode_identities(entries))
               /\ \A i \in 1..Len(entries) :
                    /\ entries[i].blob = admitted[i].blob
                    /\ entries[i].comment = Utf8Lossy(admitted[i].comment)

\* C4 witness: upstream held two identities, one forbidden, and the answer
\* declares and carries one.
C4_Witness ==
    \E c \in Conns :
        /\ ListAnswered(c)
        /\ Len(ex[c][Len(ex[c])].held) = 2
        /\ FromBE(down[c], 5) = 1
        /\ Len(Entries(down[c])) = 1

\* C5 -- Deny dominates allow: a fingerprint in the deny-set is not
\* admitted whatever the allow-set holds, and the identity is in no
\* rebuilt listing; with allow = deny = {f} the listing has no identity.
C5_DenyDominates ==
    fnOut # << >>
    => LET fp == calculate_fingerprint(fnIn.blob) IN
       /\ fp \in fnIn.policy.denied
          => ~fnOut.admit /\ ~Appears(fnOut.listing, fnIn.blob)
       /\ (fnIn.policy.allowed = {fp} /\ fnIn.policy.denied = {fp})
          => FromBE(fnOut.listing, 5) = 0 /\ Entries(fnOut.listing) = << >>

\* C5 witness: the fingerprint of BlobA is in both sets, and is refused.
C5_Witness ==
    /\ fnOut # << >>
    /\ fnIn.blob = BlobA
    /\ fnIn.policy.allowed = {FpA}
    /\ fnIn.policy.denied = {FpA}
    /\ ~fnOut.admit
    /\ FromBE(fnOut.listing, 5) = 0

\* C6 -- Allow-set semantics: a fingerprint outside the deny-set is
\* admitted when the allow-set is empty, and exactly when it is in the
\* allow-set otherwise.
C6_AllowSemantics ==
    fnOut # << >>
    => LET fp == calculate_fingerprint(fnIn.blob) IN
       fp \notin fnIn.policy.denied
       => /\ fnIn.policy.allowed = {} => fnOut.admit
          /\ fnIn.policy.allowed # {} => (fnOut.admit <=> fp \in fnIn.policy.allowed)

\* C6 witness: an empty allow-set with a non-empty deny-set admits a
\* fingerprint that is not denied.
C6_Witness ==
    /\ fnOut # << >>
    /\ fnIn.policy.allowed = {}
    /\ fnIn.policy.denied = {FpB}
    /\ fnIn.blob = BlobC
    /\ fnOut.admit

\* C7 -- Fails closed: when the listing made to decide a sign request
\* fails or is incomplete, the sign request is not sent upstream.
C7_FailsClosed ==
    \A c \in Conns :
        ( /\ SignWithBlob(c)
          /\ Len(ex[c]) >= 1
          /\ ListingFailedOrIncomplete(ex[c][1]) )
        => \A i \in 1..Len(ex[c]) : ex[c][i].req # req[c]

\* C8 -- Socket-file invariant: while the router is in service, an
\* endpoint's socket file is on disk iff the endpoint accepts; finished
\* workers and rejected connections leave the file in place.
C8_SocketFileIffAccepting ==
    mainPc = "running"
    => \A e \in Endpoints : (file[e] = "socket") <=> accepting[e]

\* C9 -- Shutdown stops accepting: once the termination signal is
\* received, every endpoint's accept loop eventually stops.
C9_ShutdownStopsAccepting ==
    sigint ~> (\A e \in Endpoints : ~accepting[e])

\* C10 -- Shutdown removes the socket files: once a termination signal is
\* received, eventually no started endpoint has its file on disk.
C10_ShutdownRemovesFiles ==
    sigint ~> (\A e \in Endpoints : file[e] = "none")

\* The last upstream exchange made for connection c's request.
LastEx(c) == ex[c][Len(ex[c])]

\* C11 -- Upstream errors keep the connection open: when an exchange with
\* upstream made for a request fails (connect refused, truncated read or
\* write), the client is written [0,0,0,1,5] and the worker reads the next
\* request of the same connection.
C11_UpstreamErrorKeepsOpen ==
    \A c \in Conns :
        (Len(ex[c]) >= 1 /\ LastEx(c).reply.err)
        => /\ down[c] = << 0, 0, 0, 1, 5 >>
           /\ pc[c] = "read"

\* C12 -- Oversized frame: a length prefix above the 1 MiB ceiling is
\* answered with [0,0,0,1,5]; no body is read, nothing is sent upstream and
\* the connection is closed.
C12_OversizeFailureFrame ==
    \A c \in Conns :
        (Len(req[c]) = 4 /\ too_large(req[c]))
        => /\ down[c] = << 0, 0, 0, 1, 5 >>
           /\ ex[c] = << >>
           /\ pc[c] = "failed"

\* The states of a running per-connection worker.
WorkerPcs == {"read", "sign_check", "forward", "filter"}

\* C13 -- Isolation: the step in which one connection's worker ends (end
\* of stream, oversized frame, I/O error, upstream error) changes no other
\* connection, stops no accept loop and leaves every socket file on disk.
C13_Isolation ==
    [][ \A c \in Conns :
          (pc[c] \in WorkerPcs /\ pc'[c] \in {"done", "failed"})
          => /\ file' = file
             /\ accepting' = accepting
             /\ \A d \in Conns \ {c} : pc'[d] = pc[d] ]_vars

\* The workers of endpoint e that are running.
Workers(e) == { c \in Conns : ConnEp(c) = e /\ pc[c] \in WorkerPcs }

\* C14 -- Concurrency cap: an endpoint never has more workers running than
\* its gate has permits, and the permits an endpoint has left depend on its
\* own workers only, whatever the other endpoint's gate is at.
C14_ConcurrencyCap ==
    \A e \in Endpoints :
        /\ Cardinality(Workers(e)) <= MAX_CONCURRENT_CONNECTIONS
        /\ accepting[e]
           => permits[e] = MAX_CONCURRENT_CONNECTIONS - Cardinality(Workers(e))

\* C14 witness: endpoint 1 is at its cap and has rejected a connection,
\* while endpoint 2 serves a connection with no permit taken from it but
\* that one.
C14_Witness ==
    /\ Cardinality(Workers(1)) = MAX_CONCURRENT_CONNECTIONS
    /\ permits[1] = 0
    /\ \E c \in Conns : ConnEp(c) = 1 /\ pc[c] = "rejected"
    /\ Cardinality(Workers(2)) = 1
    /\ permits[2] = MAX_CONCURRENT_CONNECTIONS - 1

\* Whether connection c waits in the backlog of its endpoint.
InBacklog(c) ==
    \E i \in 1..Len(backlog[ConnEp(c)]) : backlog[ConnEp(c)][i] = c

\* C15 -- Rejection at the cap: the connection the accept loop takes while
\* no permit is available is closed in that step; it is not queued, no
\* request is read from it and nothing is sent upstream for it, then or
\* later; the accept loop keeps running.
C15_RejectionAtCap ==
    /\ [][ \A e \in Endpoints :
             ( /\ accepting[e]
               /\ backlog[e] # << >>
               /\ permits[e] = 0
               /\ backlog'[e] = Tail(backlog[e]) )
             => /\ pc'[Head(backlog[e])] = "rejected"
                /\ permits'[e] = 0
                /\ accepting'[e] ]_vars
    /\ [] ( \A c \in Conns :
              pc[c] = "rejected"
              => /\ ~InBacklog(c)
                 /\ req[c] = << >>
                 /\ ex[c] = << >>
                 /\ down[c] = << >>
                 /\ accepting[ConnEp(c)] )

\* C15 witness: the accept loop of endpoint 1 rejected a connection and
\* went on to take the next one, which it rejected as well.
C15_Witness ==
    \E c, d \in Conns :
        /\ c # d
        /\ ConnEp(c) = 1 /\ ConnEp(d) = 1
        /\ pc[c] = "rejected" /\ pc[d] = "rejected"
        /\ accepting[1]

\* C16 -- Per-connection serialization: a worker is at reading a request
\* only when the connection has had no request yet or the response to the
\* last one is written; while the exchanges for a request are in progress
\* nothing is written yet, and every exchange made is for that request.
C16_Serialized ==
    \A c \in Conns :
        /\ pc[c] = "read"
           => \/ req[c] = << >> /\ ex[c] = << >> /\ down[c] = << >>
              \/ down[c] # << >>
        /\ pc[c] \in {"sign_check", "forward", "filter"} => down[c] = << >>
        /\ \A i \in 1..Len(ex[c]) : ex[c][i].req \in {req[c], list_request}

\* C16 witness: a list request was answered after two upstream exchanges
\* and the worker is back at reading.
C16_Witness ==
    \E c \in Conns :
        /\ pc[c] = "read"
        /\ req[c] = list_request
        /\ Len(ex[c]) = 2
        /\ down[c] # << >>

\* A request with a type byte that is neither 11 nor 13.
Opaque(request) ==
    /\ Len(request) >= 5
    /\ request[5] \notin {SSH_AGENTC_REQUEST_IDENTITIES, SSH_AGENTC_SIGN_REQUEST}

\* C17 -- Frame preservation: for a request of a type other than 11 and 13
\* one exchange is made with upstream, the frame written there is the
\* request, and the frame written to the client is the frame upstream
\* returned.
C17_FramePreservation ==
    \A c \in Conns :
        Opaque(req[c])
        => /\ pc[c] \in {"forward", "read", "failed"}
           /\ Len(ex[c]) <= 1
           /\ \A i \in 1..Len(ex[c]) : ex[c][i].req = req[c]
           /\ pc[c] = "read"
              => /\ Len(ex[c]) = 1
                 /\ ~ex[c][1].reply.err
                 /\ down[c] = ex[c][1].reply.frame

\* C17 witness: a type-17 request with a body went upstream unchanged and
\* upstream's answer came back unchanged.
C17_Witness ==
    \E c \in Conns :
        /\ req[c] = << 0, 0, 0, 3, 17, 11, 13 >>
        /\ pc[c] = "read"
        /\ ex[c][1].req = << 0, 0, 0, 3, 17, 11, 13 >>
        /\ down[c] = << 0, 0, 0, 1, 6 >>

\* The sign request of connection c is decided and not refused: it carries
\* no key blob, or the listing made for it shows the blob not held, or held
\* and admitted by the endpoint's policy.
SignNotRefused(c) ==
    /\ should_filter_request(req[c])
    /\ \/ ~sign_blob_parses(req[c])
       \/ /\ Len(ex[c]) >= 1
          /\ Listed(ex[c][1])
          /\ \/ ~Holds(ex[c][1].held, sign_blob(req[c]))
             \/ Admit(pol[ConnEp(c)], calculate_fingerprint(sign_blob(req[c])))

\* C18 -- Sign passthrough: a sign request that is not refused is on its
\* way upstream, or went there unchanged as the exchange after the listing
\* (the only one when it has no key blob), and what upstream returned was
\* written to the client unchanged, unless the client has closed the
\* connection meanwhile and the write failed.
C18_SignPassthrough ==
    \A c \in Conns :
        SignNotRefused(c)
        => LET k == IF sign_blob_parses(req[c]) THEN 2 ELSE 1 IN
           \/ pc[c] = "forward" /\ Len(ex[c]) = k - 1 /\ down[c] = << >>
           \/ /\ Len(ex[c]) = k
              /\ ex[c][k].req = req[c]
              /\ IF ex[c][k].reply.err \/ stream[c] = "hungup"
                 THEN pc[c] = "failed" /\ down[c] = << >>
                 ELSE pc[c] = "read" /\ down[c] = ex[c][k].reply.frame

\* C18 witness: a sign request for BlobA, held and admitted, was signed by
\* upstream and the signature relayed.
C18_Witness ==
    \E c \in Conns :
        /\ req[c] = sign_request(BlobA)
        /\ Admit(pol[ConnEp(c)], FpA)
        /\ Len(ex[c]) = 2
        /\ ex[c][2].req = sign_request(BlobA)
        /\ stream[c] = "open"
        /\ down[c] = upstream_sign_response(BlobA)
        /\ pc[c] = "read"

\* The place of the identity with this blob in upstream's listing.
Pos(held, blob) == CHOOSE p \in 1..Len(held) : held[p].blob = blob

\* C19 -- Listing rewrite keeps order: the identities of a type-12 answer
\* are identities upstream returned, in the order upstream returned them.
C19_OrderKept ==
    \A c \in Conns :
        ListAnswered(c)
        => LET entries == Entries(down[c])
               held == LastEx(c).held
           IN  /\ \A i \in 1..Len(entries) : Holds(held, entries[i].blob)
               /\ \A i, j \in 1..Len(entries) :
                    i < j => Pos(held, entries[i].blob) < Pos(held, entries[j].blob)

\* C19 witness: upstream listed IdB before IdA, both admitted, and the
\* answer carries IdB before IdA.
C19_Witness ==
    \E c \in Conns :
        /\ ListAnswered(c)
        /\ LastEx(c).held = << IdB, IdA >>
        /\ Len(Entries(down[c])) = 2
        /\ Entries(down[c])[1].blob = BlobB
        /\ Entries(down[c])[2].blob = BlobA

\* C20 -- Listing rewrite keeps bytes: the type-12 answer written to the
\* client carries, for every admitted identity, the blob bytes and the
\* comment bytes upstream returned; it is the frame upstream would send
\* for the admitted identities alone.
C20_BytesKept ==
    \A c \in Conns :
        ListAnswered(c)
        => down[c] = upstream_identities_answer(
                         AdmittedOf(pol[ConnEp(c)], LastEx(c).held))

\* C21 -- Framing invariant: every frame written to a client (a relayed
\* response, a rebuilt listing, a failure) starts with four bytes that give,
\* big-endian, the number of bytes that follow them.
C21_Framing ==
    \A c \in Conns :
        down[c] # << >>
        => /\ Len(down[c]) >= 4
           /\ FromBE(down[c], 0) = Len(down[c]) - 4

\* C21 witness: a rebuilt listing of two identities was written.
C21_Witness ==
    \E c \in Conns :
        /\ ListAnswered(c)
        /\ Len(Entries(down[c])) = 2
        /\ FromBE(down[c], 0) = Len(down[c]) - 4

\* C22 -- Upstream outage: a request for which upstream cannot be reached
\* is answered with a failure response on a connection that stays open,
\* and its endpoint stays bound, its socket file on disk, and accepting;
\* so service resumes when upstream is back, with no restart.
C22_OutageKeepsService ==
    \A c \in Conns :
        (Len(ex[c]) >= 1 /\ LastEx(c).reply.err)
        => /\ accepting[ConnEp(c)]
           /\ file[ConnEp(c)] = "socket"
           /\ pc[c] = "read"
           /\ down[c] = failure_response

\* C23 -- Stale socket cleanup: a call of start that finds a file at the
\* endpoint's path never fails because of it, and binds when the file
\* system allows changes there; a missing parent directory is created.
C23_StaleCleanup ==
    \A i \in 1..Len(startLog) :
        /\ startLog[i].kind = "stale"
           => /\ startLog[i].result \notin {"failed_is_directory", "failed_in_use"}
              /\ startLog[i].env = "ok" => startLog[i].result = "bound"
        /\ (startLog[i].kind = "none" /\ startLog[i].env = "parent_missing")
           => startLog[i].result = "bound"
        /\ (startLog[i].result = "bound" /\ mainPc \in {"starting", "running"})
           => accepting[i]

\* C23 witness: endpoint 1 was started over a file left at its path, is
\* bound there and accepts.
C23_Witness ==
    /\ Len(startLog) >= 1
    /\ startLog[1].kind = "stale"
    /\ startLog[1].result = "bound"
    /\ accepting[1]
    /\ file[1] = "socket"

\* An exchange made by Agent::list_keys for connection c's request: the
\* first of a sign request with a key blob, the second of a list request.
ListKeysExchange(c, i) ==
    \/ SignWithBlob(c) /\ i = 1
    \/ is_list(req[c]) /\ i = 2

\* C24 -- Malformed upstream listing is an error: when the type-12 frame
\* list_keys received declares more identities than can be parsed from it,
\* list_keys returns an error.
C24_MalformedListingIsError ==
    \A c \in Conns : \A i \in 1..Len(ex[c]) :
        ( /\ ListKeysExchange(c, i)
          /\ Listed(ex[c][i])
          /\ Len(ex[c][i].reply.frame) >= 9
          /\ FromBE(ex[c][i].reply.frame, 5) > Len(Entries(ex[c][i].reply.frame)) )
        => ~list_keys(ex[c][i].reply).ok

\* C25 -- Invalid configuration fails fast: with no upstream path (none
\* given, SSH_AUTH_SOCK unset) or no socket configured, main ends in an
\* error and no endpoint is ever bound.
C25_InvalidConfigFailsFast ==
    (connect_path(config.upstream, config.auth_sock) = "" \/ config.sockets = {})
    => /\ mainPc \in {"config", "failed_config"}
       /\ \A e \in Endpoints : ~accepting[e] /\ file[e] # "socket"

\* The connections of endpoint e whose worker has finished.
Finished(e) == { c \in Conns : ConnEp(c) = e /\ pc[c] \in {"done", "failed"} }

\* C29 -- Permit accounting: the running workers of an endpoint and its
\* available permits add up to the gate's size; a permit is taken in the
\* step a worker starts and given back in the step it finishes, however it
\* finishes.
C29_PermitAccounting ==
    /\ [] ( \A e \in Endpoints :
              accepting[e]
              => /\ permits[e] >= 0
                 /\ Cardinality(Workers(e)) + permits[e] = MAX_CONCURRENT_CONNECTIONS )
    /\ [][ \A c \in Conns :
             /\ (pc[c] \notin WorkerPcs /\ pc'[c] \in WorkerPcs)
                => permits'[ConnEp(c)] = permits[ConnEp(c)] - 1
             /\ (pc[c] \in WorkerPcs /\ pc'[c] \notin WorkerPcs)
                => /\ pc'[c] \in {"done", "failed"}
                   /\ permits'[ConnEp(c)] = permits[ConnEp(c)] + 1 ]_vars

\* C29 witness: endpoint 1 has admitted more connections than its gate has
\* permits, so one of them was served after a worker finished, and a
\* worker is running now.
C29_Witness ==
    /\ Cardinality(Finished(1)) + Cardinality(Workers(1)) > MAX_CONCURRENT_CONNECTIONS
    /\ Workers(1) # {}
    /\ Cardinality(Workers(1)) + permits[1] = MAX_CONCURRENT_CONNECTIONS

\* C30 -- List rewrite uses the answer it received: every identity of the
\* listing written to the client was in the type-12 frame upstream
\* returned for the forwarded list request.
C30_RewriteOfReceived ==
    \A c \in Conns :
        ListAnswered(c)
        => \A k \in Identities :
             Appears(down[c], k.blob) => Appears(ex[c][1].reply.frame, k.blob)

\* C26 -- Round trip of the listing codec: decoding the type-12 frame
\* encoded from a list of well-formed identities succeeds and gives the
\* list back: same length, same order, same blob and comment for each.
C26_RoundTrip ==
    fnOut # << >>
    => /\ fnOut.decoded.ok
       /\ Len(fnOut.decoded.keys) = Len(fnIn.keys)
       /\ \A i \in 1..Len(fnIn.keys) :
            /\ fnOut.decoded.keys[i].blob = fnIn.keys[i].blob
            /\ fnOut.decoded.keys[i].comment = fnIn.keys[i].comment

\* C26 witness: two identities with different blobs and comments, one
\* blob empty, came back in order.
C26_Witness ==
    /\ fnOut # << >>
    /\ Len(fnIn.keys) = 2
    /\ fnIn.keys[1].blob = << >> /\ fnIn.keys[1].comment = << 119 >>
    /\ fnIn.keys[2].blob = BlobA /\ fnIn.keys[2].comment = << >>
    /\ fnOut.decoded.keys = fnIn.keys

\* Whether the string has no ':'.
NoColon(str) == \A i \in 1..Len(str) : str[i] # ":"

\* The j-th smallest member of a set of numbers.
Nth(P, j) == CHOOSE p \in P : Cardinality({ q \in P : q < p }) = j - 1

\* The text between the commas of a fingerprint list, in order.
Pieces(str) ==
    LET P == { i \in 1..Len(str) : str[i] = "," } \cup {0, Len(str) + 1}
    IN  [j \in 1..(Cardinality(P) - 1) |->
            SubSeq(str, Nth(P, j) + 1, Nth(P, j + 1) - 1)]

\* A piece without the white space around it.
Trimmed(piece) ==
    LET inked == { i \in 1..Len(piece) : piece[i] # " " } IN
    IF inked = {} THEN << >>
    ELSE SubSeq(piece, Nth(inked, 1), Nth(inked, Cardinality(inked)))

\* The non-empty trimmed entries of a fingerprint list, in order.
EntriesOf(str) ==
    SelectSeq([j \in 1..Len(Pieces(str)) |-> Trimmed(Pieces(str)[j])],
              LAMBDA t : t # << >>)

\* The entries without a leading '-', in order.
AllowedOf(str) == SelectSeq(EntriesOf(str), LAMBDA t : t[1] # "-")

\* The entries with a leading '-', in order, the '-' removed.
DeniedOf(str) ==
    LET d == SelectSeq(EntriesOf(str), LAMBDA t : t[1] = "-")
    IN  [j \in 1..Len(d) |-> Tail(d[j])]

\* C27 -- SocketConfig::parse: a string without ':' is an error; otherwise
\* the path is the text before the first ':' and the non-empty trimmed
\* entries of the rest, split at ',', make the denied list (those with a
\* leading '-', without it) and the allowed list (the others), in order.
C27_Parse ==
    (fnOut # << >> /\ fnIn.fn = "parse")
    => IF NoColon(fnIn.arg) THEN ~fnOut.ok
       ELSE /\ fnOut.ok
            /\ \E k \in 1..Len(fnIn.arg) :
                 LET rest == SubSeq(fnIn.arg, k + 1, Len(fnIn.arg)) IN
                 /\ fnIn.arg[k] = ":"
                 /\ NoColon(SubSeq(fnIn.arg, 1, k - 1))
                 /\ fnOut.config.path = SubSeq(fnIn.arg, 1, k - 1)
                 /\ fnOut.config.allowed_fingerprints = AllowedOf(rest)
                 /\ fnOut.config.denied_fingerprints = DeniedOf(rest)

\* C27 witness: "p:p,-p" gave path "p", allowed ["p"], denied ["p"].
C27_Witness ==
    /\ fnOut # << >>
    /\ fnIn.fn = "parse"
    /\ fnIn.arg = << "p", ":", "p", ",", "-", "p" >>
    /\ fnOut.ok
    /\ fnOut.config.path = << "p" >>
    /\ fnOut.config.allowed_fingerprints = << << "p" >> >>
    /\ fnOut.config.denied_fingerprints = << << "p" >> >>

RECURSIVE WellFormedArgs(_)
\* An argument list made of "--" separators and (path, fingerprint-list)
\* pairs, neither member of a pair being "--".
WellFormedArgs(args) ==
    IF args = << >> THEN TRUE
    ELSE IF Head(args) = Separator THEN WellFormedArgs(Tail(args))
    ELSE /\ Len(args) >= 2
         /\ args[2] # Separator
         /\ WellFormedArgs(Tail(Tail(args)))

RECURSIVE PairsOf(_)
\* The pairs of a well-formed argument list, in order.
PairsOf(args) ==
    IF args = << >> THEN << >>
    ELSE IF Head(args) = Separator THEN PairsOf(Tail(args))
    ELSE << << args[1], args[2] >> >> \o PairsOf(Tail(Tail(args)))

\* C28 -- SocketConfig::parse_spaced: for a list of "--" separators and
\* (path, fingerprint-list) pairs the result has one configuration per
\* pair, in order, with the pair's path and the pair's fingerprints split
\* into allowed and denied as parse splits them; "--" gives none.
C28_ParseSpaced ==
    (fnOut # << >> /\ fnIn.fn = "parse_spaced" /\ WellFormedArgs(fnIn.arg))
    => LET pairs == PairsOf(fnIn.arg) IN
       /\ fnOut.ok
       /\ Len(fnOut.configs) = Len(pairs)
       /\ \A k \in 1..Len(pairs) :
            /\ fnOut.configs[k].path = pairs[k][1]
            /\ fnOut.configs[k].allowed_fingerprints = AllowedOf(pairs[k][2])
            /\ fnOut.configs[k].denied_fingerprints = DeniedOf(pairs[k][2])
            /\ fnOut.configs[k].allowed_fingerprints
                 = parse(<< ":" >> \o pairs[k][2]).config.allowed_fingerprints
            /\ fnOut.configs[k].denied_fingerprints
                 = parse(<< ":" >> \o pairs[k][2]).config.denied_fingerprints

\* C28 witness: two pairs with a separator between them gave two
\* configurations, the first with an allowed and a denied fingerprint.
C28_Witness ==
    /\ fnOut # << >>
    /\ fnIn.fn = "parse_spaced"
    /\ fnIn.arg = << << "p" >>, << "a", ",", " ", "-", "b" >>, Separator,
                     << "q", ":", "a" >>, << "p" >> >>
    /\ fnOut.ok
    /\ Len(fnOut.configs) = 2
    /\ fnOut.configs[1].allowed_fingerprints = << << "a" >> >>
    /\ fnOut.configs[1].denied_fingerprints = << << "b" >> >>
    /\ fnOut.configs[2].path = << "q", ":", "a" >>

\* C31 -- Clean end of stream: when the client closes the connection where
\* a length prefix is expected and the read there gives no byte, the
\* worker returns without an error, with no response written and no
\* exchange with upstream made for it.
C31_CleanEndOfStream ==
    /\ [][ \A c \in Conns :
             (pc[c] = "read" /\ pc'[c] \notin WorkerPcs /\ req'[c] = << >>
                /\ stream'[c] = "eof")
             => /\ pc'[c] = "done"
                /\ ex'[c] = << >>
                /\ down'[c] = << >> ]_vars
    /\ [] ( \A c \in Conns :
              pc[c] = "done" => req[c] = << >> /\ ex[c] = << >> /\ down[c] = << >> )

\* C31 witness: a client's worker has returned after the end of the
\* stream and its permit is back.
C31_Witness ==
    \E c \in Conns :
        /\ pc[c] = "done"
        /\ stream[c] = "eof"
        /\ req[c] = << >>
        /\ ex[c] = << >>
        /\ down[c] = << >>
        /\ permits[ConnEp(c)] = MAX_CONCURRENT_CONNECTIONS

====
